---- MODULE Spec2Model ----
(***************************************************************************)
(* Model of scripts/create_icon.py: the procedural pixel generator         *)
(* make_pixel, the scanline loop that fills raw, the PNG chunk framing     *)
(* and the single write of media/icon.png.  Bytes are naturals 0..255.     *)
(* A byte string held in a variable is kept as a sequence of runs          *)
(* <<n, block>>, each standing for block repeated n times; Bytes(r) is the *)
(* string of bytes a run sequence r stands for, and + on byte strings is   *)
(* Cat.                                                                    *)
(***************************************************************************)
EXTENDS Integers, Sequences, FiniteSets

VARIABLES pc, y, raw, idat, png,
          dirExists, fileExists, file, printed, writes, run, outputs,
          px, py, pres,
          ctype, cdata, cres

vars == <<pc, y, raw, idat, png, dirExists, fileExists, file, printed,
          writes, run, outputs, px, py, pres, ctype, cdata, cres>>

procVars == <<pc, y, raw, idat, png, printed, writes>>
fsVars == <<dirExists, fileExists, file>>
pixelVars == <<px, py, pres>>
chunkVars == <<ctype, cdata, cres>>

\* ---------------------------------------------------------------- bounds
\* Number of times the script is run, one process after the other.
MaxRuns == 2
\* Longest payload handed to chunk when it is examined on its own.
MaxPayloadLen == 3

\* ------------------------------------------------------ program constants
width == 128
height == 128

\* ------------------------------------------------------------ byte strings
\* The byte string s as a run sequence.
Lit(s) == IF s = <<>> THEN <<>> ELSE << <<1, s>> >>

\* The bytes of one run.
RunBytes(rn) ==
    [i \in 1..(rn[1] * Len(rn[2])) |-> rn[2][((i - 1) % Len(rn[2])) + 1]]

RECURSIVE BytesOf(_, _, _)
\* The bytes of the runs r[lo..hi], in order.
BytesOf(r, lo, hi) ==
    IF lo > hi THEN <<>>
    ELSE IF lo = hi THEN RunBytes(r[lo])
    ELSE LET mid == (lo + hi) \div 2
         IN BytesOf(r, lo, mid) \o BytesOf(r, mid + 1, hi)

Bytes(r) == BytesOf(r, 1, Len(r))

RECURSIVE SizeOf(_, _, _)
\* The number of bytes in the runs r[lo..hi].
SizeOf(r, lo, hi) ==
    IF lo > hi THEN 0
    ELSE IF lo = hi THEN r[lo][1] * Len(r[lo][2])
    ELSE LET mid == (lo + hi) \div 2
         IN SizeOf(r, lo, mid) + SizeOf(r, mid + 1, hi)

\* len(b)
Size(r) == SizeOf(r, 1, Len(r))

\* a + b on byte strings; a run that continues across the seam is merged.
Cat(a, b) ==
    IF a = <<>> THEN b
    ELSE IF b = <<>> THEN a
    ELSE IF a[Len(a)][2] = b[1][2]
         THEN SubSeq(a, 1, Len(a) - 1)
                  \o << <<a[Len(a)][1] + b[1][1], b[1][2]>> >>
                  \o SubSeq(b, 2, Len(b))
         ELSE a \o b

RECURSIVE RunAt(_, _, _, _)
\* The least j in lo..hi such that the runs r[1..j] hold at least k bytes.
RunAt(r, k, lo, hi) ==
    IF lo >= hi THEN lo
    ELSE LET mid == (lo + hi) \div 2
         IN IF SizeOf(r, 1, mid) >= k THEN RunAt(r, k, lo, mid)
                                      ELSE RunAt(r, k, mid + 1, hi)

\* The first m bytes of one run, 0 <= m <= its size.
RunHead(rn, m) ==
    LET q == m \div Len(rn[2])
        e == m % Len(rn[2])
    IN (IF q > 0 THEN << <<q, rn[2]>> >> ELSE <<>>)
           \o Lit(SubSeq(rn[2], 1, e))

\* One run without its first m bytes.
RunRest(rn, m) ==
    LET q == m \div Len(rn[2])
        e == m % Len(rn[2])
        whole == IF e > 0 THEN rn[1] - q - 1 ELSE rn[1] - q
    IN (IF e > 0 THEN Lit(SubSeq(rn[2], e + 1, Len(rn[2]))) ELSE <<>>)
           \o (IF whole > 0 THEN << <<whole, rn[2]>> >> ELSE <<>>)

\* b[:k] for 0 <= k <= len(b)
Take(r, k) ==
    IF k = 0 THEN <<>>
    ELSE LET j == RunAt(r, k, 1, Len(r))
         IN SubSeq(r, 1, j - 1) \o RunHead(r[j], k - SizeOf(r, 1, j - 1))

\* b[k:] for 0 <= k <= len(b)
Drop(r, k) ==
    IF k = 0 THEN r
    ELSE LET j == RunAt(r, k, 1, Len(r))
         IN RunRest(r[j], k - SizeOf(r, 1, j - 1)) \o SubSeq(r, j + 1, Len(r))

\* ------------------------------------------------------- pixel generator
RECURSIVE SqrtSearch(_, _, _)
\* Least r in lo..hi with r*r >= n (bisection).
SqrtSearch(n, lo, hi) ==
    IF lo >= hi THEN lo
    ELSE LET mid == (lo + hi) \div 2
         IN IF mid * mid >= n THEN SqrtSearch(n, lo, mid)
                              ELSE SqrtSearch(n, mid + 1, hi)

\* (dx*dx + dy*dy) ** 0.5, rounded up to the next integer.  The code only
\* compares the root with the integer 48; for an integer r the double
\* sqrt(n) <= r exactly when the rounded-up root is <= r, because for
\* n <= 2 * 64^2 the root of a non-square lies further than 0.005 from
\* every integer, far above the rounding error of a double.
dist(dx, dy) == SqrtSearch(dx * dx + dy * dy, 0, 2 * (width + height))

\* The body of "if dist <= 48": eyes, mouth, antenna stem, antenna ball and
\* head fill, the first test that holds deciding the colour.
HeadPixel(x, y0) ==
    LET ldx == x - 48
        ldy == y0 - 48
        rdx == x - 80
        rdy == y0 - 48
        dx2 == x - 64
        dy2 == y0 - 10
    IN IF 43 <= y0 /\ y0 <= 55 /\ (ldx * ldx + ldy * ldy) <= 64
       THEN <<255, 255, 255, 255>>
       ELSE IF 43 <= y0 /\ y0 <= 55 /\ (rdx * rdx + rdy * rdy) <= 64
       THEN <<255, 255, 255, 255>>
       ELSE IF 68 <= y0 /\ y0 <= 72 /\ 48 <= x /\ x <= 80
       THEN <<255, 255, 255, 255>>
       ELSE IF 14 <= y0 /\ y0 <= 18 /\ 62 <= x /\ x <= 66
       THEN <<100, 149, 237, 255>>
       ELSE IF y0 < 18 /\ 58 <= x /\ x <= 70 /\ (dx2 * dx2 + dy2 * dy2) <= 36
       THEN <<100, 149, 237, 255>>
       ELSE <<65, 105, 225, 255>>

\* The antenna tests moved in front of the head test.
make_pixel_antenna_first(x, y0) ==
    IF HeadPixel(x, y0) = <<100, 149, 237, 255>> THEN <<100, 149, 237, 255>>
    ELSE IF dist(x - 64, y0 - 64) <= 48 THEN HeadPixel(x, y0)
    ELSE <<0, 0, 0, 0>>

\* The head test with < in place of <=.
make_pixel_open_disc(x, y0) ==
    IF dist(x - 64, y0 - 64) < 48 THEN HeadPixel(x, y0) ELSE <<0, 0, 0, 0>>

make_pixel(x, y0) ==
    LET cx == 64
        cy == 64
        dx == x - cx
        dy == y0 - cy
    IN IF dist(dx, dy) <= 48 THEN HeadPixel(x, y0) ELSE <<0, 0, 0, 0>>

\* struct.pack('BBBB', r, g, b, a): four unsigned bytes, in order.
PackBBBB(p) == <<p[1] % 256, p[2] % 256, p[3] % 256, p[4] % 256>>

\* struct.pack('>I', n): 32-bit unsigned, most significant byte first.
\* Every n packed here is below 2^31.
PackBE32(n) == << (n \div 16777216) % 256, (n \div 65536) % 256,
                  (n \div 256) % 256, n % 256 >>

RECURSIVE PixelLoop(_, _, _)
\* The inner loop over x in lo..hi-1: the bytes that
\* raw += struct.pack('BBBB', *make_pixel(x, y)) appends, in order of x.
\* The range is split in halves to keep the evaluation shallow.
PixelLoop(lo, hi, y0) ==
    IF lo >= hi THEN <<>>
    ELSE IF lo + 1 = hi THEN Lit(PackBBBB(make_pixel(lo, y0)))
    ELSE LET mid == (lo + hi) \div 2
         IN Cat(PixelLoop(lo, mid, y0), PixelLoop(mid, hi, y0))

\* The row without its filter byte.
Scanline_no_filter(y0) == PixelLoop(0, width, y0)

\* One iteration of the outer loop: filter byte, then the row's pixels.
Scanline(y0) == Cat(Lit(<<0>>), PixelLoop(0, width, y0))

\* ------------------------------------------------------------ PNG encoder
RECURSIVE XorBits(_, _)
\* Bitwise exclusive or of two naturals, bit by bit.
XorBits(a, b) ==
    IF a = 0 THEN b
    ELSE IF b = 0 THEN a
    ELSE ((a + b) % 2) + 2 * XorBits(a \div 2, b \div 2)

\* The exclusive or of two bytes, tabulated.
XorTable == [a \in 0..255 |-> [b \in 0..255 |-> XorBits(a, b)]]

Xor(a, b) == XorTable[a][b]

\* A 32-bit unsigned word is kept as its four bytes, most significant
\* first, so that no intermediate value leaves the 32 bits.
XorWord(u, v) == <<Xor(u[1], v[1]), Xor(u[2], v[2]),
                   Xor(u[3], v[3]), Xor(u[4], v[4])>>

\* u >> 1
ShiftRight1(u) == << u[1] \div 2,
                     (u[2] \div 2) + 128 * (u[1] % 2),
                     (u[3] \div 2) + 128 * (u[2] % 2),
                     (u[4] \div 2) + 128 * (u[3] % 2) >>

\* u >> 8
ShiftRight8(u) == <<0, u[1], u[2], u[3]>>

\* The reflected CRC-32 polynomial EDB88320.
CrcPoly == <<237, 184, 131, 32>>

RECURSIVE CrcBits(_, _)
\* k rounds of the reflected CRC-32 shift register.
CrcBits(c, k) ==
    IF k = 0 THEN c
    ELSE CrcBits(IF c[4] % 2 = 1 THEN XorWord(CrcPoly, ShiftRight1(c))
                                 ELSE ShiftRight1(c),
                 k - 1)

\* zlib's byte table: the register after eight rounds, for every low byte.
CrcTable == [n \in 0..255 |-> CrcBits(<<0, 0, 0, n>>, 8)]

CrcStep(c, byte) == XorWord(CrcTable[Xor(c[4], byte)], ShiftRight8(c))

RECURSIVE CrcFold(_, _, _, _)
\* The register after the bytes s[lo..hi], in order.  The range is split in
\* halves and the left half is evaluated before the right one starts, to
\* keep the evaluation shallow.
CrcFold(c, s, lo, hi) ==
    IF lo > hi THEN c
    ELSE IF lo = hi THEN CrcStep(c, s[lo])
    ELSE LET mid == (lo + hi) \div 2
             left == CrcFold(c, s, lo, mid)
         IN IF left[4] >= 0 THEN CrcFold(left, s, mid + 1, hi) ELSE left

\* zlib.crc32(c) & 0xffffffff of the byte sequence s, as a word.
crc32(s) ==
    XorWord(CrcFold(<<255, 255, 255, 255>>, s, 1, Len(s)),
            <<255, 255, 255, 255>>)

\* The CRC taken over the length field as well.
chunk_crc_with_length(ct, data) ==
    LET c == Cat(ct, data)
    IN Cat(Cat(Lit(PackBE32(Size(data))), c),
           Lit(crc32(PackBE32(Size(data)) \o Bytes(c))))

\* chunk(ctype, data): length, type + payload, CRC of type + payload.
chunk(ct, data) ==
    LET c == Cat(ct, data)
    IN Cat(Cat(Lit(PackBE32(Size(data))), c), Lit(crc32(Bytes(c))))

sig == Lit(<<137, 80, 78, 71, 13, 10, 26, 10>>)
IHDR == Lit(<<73, 72, 68, 82>>)
IDAT == Lit(<<73, 68, 65, 84>>)
IEND == Lit(<<73, 69, 78, 68>>)

\* struct.pack('>IIBBBBB', width, height, 8, 6, 0, 0, 0)
ihdr == Lit(PackBE32(width) \o PackBE32(height) \o <<8, 6, 0, 0, 0>>)

AdlerStep(st, byte) ==
    LET a == (st[1] + byte) % 65521
    IN <<a, (st[2] + a) % 65521>>

RECURSIVE AdlerFold(_, _, _, _)
\* The two running sums after the bytes s[lo..hi], in order.
AdlerFold(st, s, lo, hi) ==
    IF lo > hi THEN st
    ELSE IF lo = hi THEN AdlerStep(st, s[lo])
    ELSE LET mid == (lo + hi) \div 2
             left == AdlerFold(st, s, lo, mid)
         IN IF left[1] >= 0 THEN AdlerFold(left, s, mid + 1, hi) ELSE left

\* Adler-32 of the byte sequence s, the trailer of a zlib stream, as a
\* word: the high half is the sum of sums, the low half the byte sum.
adler32(s) ==
    LET st == AdlerFold(<<1, 0>>, s, 1, Len(s))
    IN <<st[2] \div 256, st[2] % 256, st[1] \div 256, st[1] % 256>>

RECURSIVE StoredBlocks(_)
\* A deflate body that carries r in stored blocks of at most 65535 bytes:
\* header byte (final flag, type 00), LEN and NLEN little endian, then the
\* bytes.
StoredBlocks(r) ==
    LET rest == Size(r)
        n == IF rest > 65535 THEN 65535 ELSE rest
        final == IF rest > 65535 THEN 0 ELSE 1
        head == Lit(<<final, n % 256, n \div 256,
                      255 - (n % 256), 255 - (n \div 256)>>)
    IN IF final = 1 THEN Cat(head, r)
       ELSE Cat(Cat(head, Take(r, n)), StoredBlocks(Drop(r, n)))

\* zlib.compress(raw, 9).  The library's result is a zlib stream that is a
\* function of raw alone: two header bytes (78 DA for level 9), a deflate
\* body and the big-endian Adler-32 of raw.  The body is modelled by the
\* stored-block encoding of raw, which every inflater decodes to raw; the
\* entropy coding zlib would choose is not modelled.
compress(r) ==
    Cat(Cat(Lit(<<120, 218>>), StoredBlocks(r)), Lit(adler32(Bytes(r))))

\* ------------------------------------------------- the script, step by step
\* What media/icon.png may hold before the first run.
OldContents == { <<>>, Lit(<<1, 2, 3>>), Cat(sig, chunk(IEND, <<>>)) }

\* A failed write leaves the truncated file or a prefix of the stream.
Partial(s) == { <<>>, Take(s, Size(sig)) }

ProcInit ==
    /\ pc = "loop"
    /\ y = 0
    /\ raw = <<>>
    /\ idat = <<>>
    /\ png = <<>>
    /\ printed = <<>>
    /\ writes = 0

PixelIdle == px = 0 /\ py = 0 /\ pres = <<>>
ChunkIdle == ctype = <<>> /\ cdata = <<>> /\ cres = <<>>

Init ==
    /\ ProcInit
    /\ run = 1
    /\ outputs = <<>>
    /\ \/ dirExists = FALSE /\ fileExists = FALSE /\ file = <<>>
       \/ dirExists = TRUE /\ fileExists = FALSE /\ file = <<>>
       \/ dirExists = TRUE /\ fileExists = TRUE /\ file \in OldContents
    /\ PixelIdle
    /\ ChunkIdle

\* for y in range(height): raw += b'\x00'; for x in range(width): ...
Row ==
    /\ pc = "loop"
    /\ y < height
    /\ raw' = Cat(raw, Scanline(y))
    /\ y' = y + 1
    /\ UNCHANGED <<pc, idat, png, printed, writes, run, outputs>>
    /\ UNCHANGED <<fsVars, pixelVars, chunkVars>>

\* range(height) is exhausted; control reaches the encoder.
LoopExit ==
    /\ pc = "loop"
    /\ y = height
    /\ pc' = "compress"
    /\ UNCHANGED <<y, raw, idat, png, printed, writes, run, outputs>>
    /\ UNCHANGED <<fsVars, pixelVars, chunkVars>>

\* An exception nobody catches ends the process.
Raise ==
    /\ pc' = "crashed"
    /\ UNCHANGED <<y, raw, idat, png, printed, writes, run, outputs>>
    /\ UNCHANGED <<pixelVars, chunkVars>>

\* idat = zlib.compress(raw, 9)
Compress ==
    /\ pc = "compress"
    /\ idat' = compress(raw)
    /\ pc' = "assemble"
    /\ UNCHANGED <<y, raw, png, printed, writes, run, outputs>>
    /\ UNCHANGED <<fsVars, pixelVars, chunkVars>>

CompressFails ==
    /\ pc = "compress"
    /\ Raise
    /\ UNCHANGED fsVars

\* The end marker placed before the image data.
Assemble_iend_first ==
    /\ pc = "assemble"
    /\ png' = Cat(Cat(Cat(sig, chunk(IHDR, ihdr)), chunk(IEND, <<>>)),
                   chunk(IDAT, idat))
    /\ pc' = "makedirs"
    /\ UNCHANGED <<y, raw, idat, printed, writes, run, outputs>>
    /\ UNCHANGED <<fsVars, pixelVars, chunkVars>>

\* png = sig + chunk(b'IHDR', ihdr) + chunk(b'IDAT', idat) + chunk(b'IEND', b'')
Assemble ==
    /\ pc = "assemble"
    /\ png' = Cat(Cat(Cat(sig, chunk(IHDR, ihdr)), chunk(IDAT, idat)),
                   chunk(IEND, <<>>))
    /\ pc' = "makedirs"
    /\ UNCHANGED <<y, raw, idat, printed, writes, run, outputs>>
    /\ UNCHANGED <<fsVars, pixelVars, chunkVars>>

\* os.makedirs(os.path.dirname(outpath), exist_ok=True)
MakeDirs ==
    /\ pc = "makedirs"
    /\ dirExists' = TRUE
    /\ pc' = "open"
    /\ UNCHANGED <<y, raw, idat, png, printed, writes, run, outputs>>
    /\ UNCHANGED <<fileExists, file, pixelVars, chunkVars>>

MakeDirsFails ==
    /\ pc = "makedirs"
    /\ ~dirExists
    /\ Raise
    /\ UNCHANGED fsVars

\* The file opened for appending: nothing is truncated.
Open_append ==
    /\ pc = "open"
    /\ fileExists' = TRUE
    /\ file' = file
    /\ pc' = "write"
    /\ UNCHANGED <<y, raw, idat, png, printed, writes, run, outputs>>
    /\ UNCHANGED <<dirExists, pixelVars, chunkVars>>

\* open(outpath, 'wb'): creates the file or truncates it.
Open ==
    /\ pc = "open"
    /\ fileExists' = TRUE
    /\ file' = <<>>
    /\ pc' = "write"
    /\ UNCHANGED <<y, raw, idat, png, printed, writes, run, outputs>>
    /\ UNCHANGED <<dirExists, pixelVars, chunkVars>>

OpenFails ==
    /\ pc = "open"
    /\ Raise
    /\ UNCHANGED fsVars

\* f.write(png) and the close at the end of the with block.
Write ==
    /\ pc = "write"
    /\ file' = Cat(file, png)
    /\ writes' = writes + 1
    /\ pc' = "report"
    /\ UNCHANGED <<y, raw, idat, png, printed, run, outputs>>
    /\ UNCHANGED <<dirExists, fileExists, pixelVars, chunkVars>>

\* The write error caught and ignored: the script goes on to the report.
WriteFails_swallowed ==
    /\ pc = "write"
    /\ file' \in Partial(png)
    /\ pc' = "report"
    /\ UNCHANGED <<y, raw, idat, png, printed, writes, run, outputs>>
    /\ UNCHANGED <<dirExists, fileExists, pixelVars, chunkVars>>

WriteFails ==
    /\ pc = "write"
    /\ file' \in Partial(png)
    /\ Raise
    /\ UNCHANGED <<dirExists, fileExists>>

\* print(f'Created icon.png: {len(png)} bytes'); then the script ends.
Report ==
    /\ pc = "report"
    /\ printed' = Append(printed, Size(png))
    /\ outputs' = Append(outputs, file)
    /\ pc' = "done"
    /\ UNCHANGED <<y, raw, idat, png, writes, run>>
    /\ UNCHANGED <<fsVars, pixelVars, chunkVars>>

\* The script is started again as a new process; only the file system and
\* the record of earlier outputs survive.
Rerun ==
    /\ pc \in {"done", "crashed"}
    /\ run < MaxRuns
    /\ run' = run + 1
    /\ pc' = "loop"
    /\ y' = 0
    /\ raw' = <<>>
    /\ idat' = <<>>
    /\ png' = <<>>
    /\ printed' = <<>>
    /\ writes' = 0
    /\ UNCHANGED <<outputs, fsVars, pixelVars, chunkVars>>

Next ==
    \/ Row
    \/ LoopExit
    \/ Compress
    \/ CompressFails
    \/ Assemble
    \/ MakeDirs
    \/ MakeDirsFails
    \/ Open
    \/ OpenFails
    \/ Write
    \/ WriteFails
    \/ Report
    \/ Rerun

Spec == Init /\ [][Next]_vars

\* --------------------------------------------- make_pixel examined alone
InitPixel ==
    /\ ProcInit
    /\ run = 1
    /\ outputs = <<>>
    /\ dirExists = FALSE /\ fileExists = FALSE /\ file = <<>>
    /\ px \in 0..(width - 1)
    /\ py \in 0..(height - 1)
    /\ pres = <<>>
    /\ ChunkIdle

\* r, g, b, a = make_pixel(x, y)
CallMakePixel ==
    /\ pres = <<>>
    /\ pres' = make_pixel(px, py)
    /\ UNCHANGED <<procVars, fsVars, run, outputs, px, py, chunkVars>>

NextPixel == CallMakePixel

SpecPixel == InitPixel /\ [][NextPixel]_vars

\* -------------------------------------------------- chunk examined alone
ChunkTypes == {IHDR, IDAT, IEND}
PayloadBytes == {0, 73, 255}
Payloads == { Lit(s) : s \in UNION { [1..n -> PayloadBytes] : n \in 0..MaxPayloadLen } }

InitChunk ==
    /\ ProcInit
    /\ run = 1
    /\ outputs = <<>>
    /\ dirExists = FALSE /\ fileExists = FALSE /\ file = <<>>
    /\ PixelIdle
    /\ ctype \in ChunkTypes
    /\ cdata \in Payloads
    /\ cres = <<>>

\* chunk(ctype, data)
CallChunk ==
    /\ cres = <<>>
    /\ cres' = chunk(ctype, cdata)
    /\ UNCHANGED <<procVars, fsVars, run, outputs, pixelVars, ctype, cdata>>

NextChunk == CallChunk

SpecChunk == InitChunk /\ [][NextChunk]_vars

\* ================================================================ claims
Transparent == <<0, 0, 0, 0>>
White == <<255, 255, 255, 255>>
AntennaColour == <<100, 149, 237, 255>>
HeadFill == <<65, 105, 225, 255>>

\* Squared distance of the examined pixel from (ax, ay).
Dist2(ax, ay) == (px - ax) * (px - ax) + (py - ay) * (py - ay)

\* C1: every pixel of the grid whose squared distance from (64,64) exceeds
\* 2304 is returned as (0,0,0,0); no eye, mouth or antenna test gives it
\* a non-zero alpha.
C1_OutsideTransparent ==
    (pres # <<>> /\ Dist2(64, 64) > 2304) => pres = Transparent

\* The centre of the antenna ball, which lies outside the head circle, has
\* been evaluated.
C1_Witness == pres = Transparent /\ px = 64 /\ py = 10

\* C2: make_pixel(64, 10) is the antenna colour and make_pixel(0, 0) is
\* fully transparent.
C2_AntennaCentre ==
    /\ (pres # <<>> /\ px = 64 /\ py = 10) => pres = AntennaColour
    /\ (pres # <<>> /\ px = 0 /\ py = 0) => pres[4] = 0

\* C3: every pixel inside the head circle within squared distance 64 of an
\* eye centre, (48,48) or (80,48), is returned white.
C3_EyesWhite ==
    (/\ pres # <<>>
     /\ Dist2(64, 64) <= 2304
     /\ (Dist2(48, 48) <= 64 \/ Dist2(80, 48) <= 64))
    => pres = White

\* C10: alpha is 255 exactly on the head circle, where the colour is white,
\* antenna or head fill; everywhere else the pixel is (0,0,0,0).
C10_OpaqueIffHead ==
    pres # <<>> =>
        /\ pres[4] \in {0, 255}
        /\ pres[4] = 255 <=> Dist2(64, 64) <= 2304
        /\ pres[4] = 255 => pres \in {White, AntennaColour, HeadFill}
        /\ pres[4] = 0 => pres = Transparent

\* A pixel on the rim of the head circle has been evaluated.
C10_Witness == pres = HeadFill /\ px = 16 /\ py = 64

\* The 32-bit big-endian number at s[at..at+3].
ReadBE32(s, at) ==
    s[at] * 16777216 + s[at + 1] * 65536 + s[at + 2] * 256 + s[at + 3]

\* C5: chunk(ctype, data) is the 4-byte big-endian payload length, the type
\* tag, the payload unchanged and the CRC-32 of type tag followed by payload
\* (the length field is not covered), len(data) + 12 bytes in all.
C5_ChunkFraming ==
    cres # <<>> =>
        LET out == Bytes(cres)
            n == Len(Bytes(cdata))
        IN /\ Len(out) = n + 12
           /\ SubSeq(out, 1, 4) = <<0, 0, 0, n>>
           /\ SubSeq(out, 5, 8) = Bytes(ctype)
           /\ SubSeq(out, 9, 8 + n) = Bytes(cdata)
           /\ SubSeq(out, n + 9, n + 12) = crc32(SubSeq(out, 5, n + 8))
           /\ (Bytes(ctype) = <<73, 72, 68, 82>> /\ Bytes(cdata) = <<73, 0>>) =>
                  SubSeq(out, n + 9, n + 12) = <<171, 227, 40, 119>>

\* A chunk with a payload of two or more bytes has been framed.
C5_Witness == cres # <<>> /\ ctype = IDAT /\ Size(cdata) >= 2

IendBytes == <<0, 0, 0, 0, 73, 69, 78, 68, 174, 66, 96, 130>>

\* The last n bytes of the byte sequence s.
LastBytes(s, n) == SubSeq(s, Len(s) - n + 1, Len(s))

\* C6: the stream ends with a 12-byte IEND chunk of zero-length payload
\* whose CRC is the fixed value AE 42 60 82, whatever precedes it.
C6_IendFixed ==
    /\ png # <<>> =>
           (Size(png) >= 12 /\ LastBytes(Bytes(png), 12) = IendBytes)
    /\ pc \in {"report", "done"} =>
           (Size(file) >= 12 /\ LastBytes(Bytes(file), 12) = IendBytes)

\* A run has written the file and ended.
C6_Witness == pc = "done" /\ Size(file) > 12 /\ run = 1

\* The byte sequence s is the signature followed by exactly the chunks
\* IHDR, IDAT and IEND, each located by the length field of the one before,
\* and nothing else.
PngFraming(s) ==
    /\ Len(s) >= 8 + 36
    /\ SubSeq(s, 1, 8) = <<137, 80, 78, 71, 13, 10, 26, 10>>
    /\ LET l1 == ReadBE32(s, 9)
           o2 == 9 + 12 + l1
       IN /\ SubSeq(s, 13, 16) = <<73, 72, 68, 82>>
          /\ o2 + 11 <= Len(s)
          /\ SubSeq(s, o2 + 4, o2 + 7) = <<73, 68, 65, 84>>
          /\ LET l2 == ReadBE32(s, o2)
                 o3 == o2 + 12 + l2
             IN /\ o3 + 11 = Len(s)
                /\ SubSeq(s, o3 + 4, o3 + 7) = <<73, 69, 78, 68>>
                /\ ReadBE32(s, o3) = 0

\* C4: the stream, and the file once written, is the 8-byte PNG signature
\* followed by exactly the chunks IHDR, IDAT, IEND in that order, with no
\* other bytes.
C4_SignatureAndChunks ==
    /\ png # <<>> => PngFraming(Bytes(png))
    /\ pc \in {"report", "done"} => PngFraming(Bytes(file))

\* The file has been written and the report is next.
C4_Witness == pc = "report" /\ run = 1 /\ writes = 1 /\ Size(file) > 44

\* The byte sequence s is 128 scanlines of 513 bytes: filter byte 0, then
\* make_pixel(x, y) for x = 0..127.
RawLayout(s) ==
    /\ Len(s) = 65664
    /\ \A yy \in 0..127 :
          /\ s[yy * 513 + 1] = 0
          /\ \A xx \in 0..127 :
                SubSeq(s, yy * 513 + 4 * xx + 2, yy * 513 + 4 * xx + 5)
                    = make_pixel(xx, yy)

\* C7: the IHDR payload is the 13 bytes for width 128, height 128, bit
\* depth 8, colour type 6 and compression, filter, interlace 0; the buffer
\* handed to the compressor is 128 scanlines of 513 bytes, each a filter
\* byte 0 followed by make_pixel(x, y) for x = 0..127, 65664 bytes in all.
C7_HeaderAndScanlines ==
    /\ pc = "compress" => RawLayout(Bytes(raw))
    /\ idat # <<>> => Size(raw) = 65664
    /\ png # <<>> =>
           SubSeq(Bytes(Take(png, 29)), 9, 29)
               = <<0, 0, 0, 13, 73, 72, 68, 82,
                   0, 0, 0, 128, 0, 0, 0, 128, 8, 6, 0, 0, 0>>

\* The stream has been assembled from a compressed full buffer.
C7_Witness == pc = "makedirs" /\ Size(raw) = 65664 /\ Size(png) > 44

\* C8: every completed run leaves the same bytes in the file and reports
\* the same count, whatever the file held before and whatever earlier
\* runs did.
C8_Deterministic ==
    /\ \A i \in 1..Len(outputs) : Bytes(outputs[i]) = Bytes(outputs[1])
    /\ pc = "done" =>
           /\ Bytes(file) = Bytes(outputs[1])
           /\ printed = <<Size(outputs[1])>>

\* Two runs have completed.
C8_Witness == Len(outputs) >= 2 /\ pc = "done"

RowLen == 1 + 4 * width

C9Inv ==
    /\ pc \notin {"loop", "crashed"} => (y = height /\ Size(raw) = height * RowLen)
    /\ idat # <<>> => Size(raw) = height * RowLen
    /\ writes <= 1
    /\ pc \in {"report", "done"} => (writes = 1 /\ Bytes(file) = Bytes(png))
    /\ pc = "done" => printed = <<Size(png)>>
    /\ pc # "done" => printed = <<>>

C9Step ==
    /\ png' = <<>> => UNCHANGED fsVars
    /\ idat' # idat => (idat' = <<>> \/ (pc = "compress" /\ y = height))
    /\ printed' # printed =>
           (printed' = <<>>
            \/ (pc = "report" /\ writes = 1 /\ Bytes(file) = Bytes(png)))
    /\ pc = "crashed" => (pc' = "loop" /\ run' = run + 1 /\ printed' = <<>>)
    /\ (pc' = "crashed" /\ pc # "crashed") => printed' = <<>>

\* C9: the buffer is complete before compression starts, the stream is
\* assembled before the directory is created and the file opened, the file
\* is written once, the count is reported only after the write succeeded,
\* and a failing step ends the process without a report.
C9_OrderedPass == []C9Inv /\ [][C9Step]_vars

\* A write has failed and ended the process.
C9_Witness ==
    pc = "crashed" /\ png # <<>> /\ fileExists /\ file = sig

====
